---- MODULE Spec2Model ----
(***************************************************************************)
(* State-machine model of src/bot.js: a Telegram bot that polls a block    *)
(* explorer for token transfers of monitored addresses and forwards the    *)
(* qualifying ones as alerts.                                              *)
(*                                                                         *)
(* JavaScript runs one task at a time.  An async function is cut at every  *)
(* await that waits for real I/O (the HTTP fetch, the Telegram send); an   *)
(* await of an already-resolved promise (sendNotification(null)) resumes   *)
(* in the microtask queue before any timer or I/O callback, so the code    *)
(* between two I/O awaits is one uninterrupted run.  The record loop of    *)
(* checkTransactions is modelled one record per step, and while a tick is  *)
(* in such a run (Busy) no other process takes a step.                     *)
(***************************************************************************)
EXTENDS Integers, Sequences, FiniteSets, TLC

VARIABLES
    MONITOR_ADDRESS,       \* process.env.MONITOR_ADDRESS ("" when unset)
    addressesFile,         \* ./addresses.json: [exists, data]
    blacklistFile,         \* ./blacklist.json: [exists, data]
    monitoredAddresses,    \* keys in insertion order, each with its data object
    heap,                  \* the data objects: reference -> [lastBlock, remark]
    blacklistedContracts,  \* keys of the in-memory blacklist
    isInitializing,
    initProc,              \* the activation of init(): its position, the entries
                           \* still to sync, the addresses synced, the summaries sent
    tick,                  \* the activations of checkTransactions()
    cmd,                   \* the activations of the /add handler
    ncmds,                 \* commands handled so far
    reply,                 \* the last reply sent to the chat by a command
    alerts,                \* history: bot.sendMessage calls per address and tx hash
    loaded,                \* history: the snapshot read by loadAddresses
    failed,                \* history: the alerts whose bot.sendMessage was rejected
    hist,                  \* the feed's fixed history per address (SpecFixed)
    ftx,                   \* input of the filter harness (SpecFilter)
    fmsg                   \* result of the filter harness (SpecFilter)

vars == <<MONITOR_ADDRESS, addressesFile, blacklistFile, monitoredAddresses,
          heap, blacklistedContracts, isInitializing, initProc, tick, cmd,
          ncmds, reply, alerts, loaded, failed, hist, ftx, fmsg>>

-----------------------------------------------------------------------------
(* Bounds *)

MaxTicks == 2      \* timer firings modelled
MaxLen == 1        \* longest feed response under Spec and SpecCmd
MaxLenSeq == 3     \* longest feed response under SpecSeq and SpecFixed
MaxBlock == 2      \* highest lastBlock in a snapshot found at start
MaxCmds == 3       \* chat commands handled in one run
MaxCmdsCmd == 1    \* chat commands handled under SpecCmd, SpecChat and SpecFixed
MaxTicksCmd == 1   \* timer firings modelled under SpecCmd
MaxLenOverlap == 2 \* longest feed response under SpecOverlap
MaxLenLive == 2    \* longest feed history under SpecLive
MaxValue == 12     \* highest raw value given to the filter harness
MaxDecimals == 2   \* highest tokenDecimal given to the filter harness

(* Program constants *)

MinNum == 1        \* config.minTransferAmount = MinNum / MinDen = 0.1
MinDen == 10
DefaultDecimals == 18

NoMsg == [remark |-> "", incoming |-> FALSE, hash |-> "", address |-> ""]
NoRemark == ""

Addresses == {"a1", "a2"}
Contracts == {"c1", "c2"}
Ticks == 1..MaxTicks
Refs == 1..(Cardinality(Addresses) + MaxCmds)

-----------------------------------------------------------------------------
(* Strings *)

\* String.prototype.toLowerCase on the strings of the model
toLowerCase(s) ==
    CASE s = "A1" -> "a1"
      [] s = "A2" -> "a2"
      [] s = "C1" -> "c1"
      [] s = "C2" -> "c2"
      [] s = "X9" -> "x9"
      [] OTHER -> s

Max(a, b) == IF a >= b THEN a ELSE b

RECURSIVE MaxBlockOf(_)
\* Math.max(...txs.map(tx => parseInt(tx.blockNumber))) for a non-empty txs
MaxBlockOf(txs) ==
    IF Len(txs) = 1 THEN txs[1].blockNumber
    ELSE Max(txs[1].blockNumber, MaxBlockOf(Tail(txs)))

RECURSIVE SeqsUpTo(_, _)
SeqsUpTo(S, n) ==
    IF n = 0 THEN {<<>>}
    ELSE LET shorter == SeqsUpTo(S, n - 1)
         IN  shorter \cup {Append(s, x) : s \in shorter, x \in S}

Range(s) == {s[k] : k \in 1..Len(s)}

-----------------------------------------------------------------------------
(* The transfer feed *)

Tx(h, b, c, to, v, d) ==
    [hash |-> h, blockNumber |-> b, contractAddress |-> c, to |-> to,
     value |-> v, tokenDecimal |-> d]

\* The records the explorer may return for address a.
Feed(a) ==
    { Tx("h1", 1, "c2", "x9", 50, 1),      \* outgoing, token c2
      Tx("h2", 2, "C2", a, 50, 1),         \* incoming, token c2, same block as h3
      Tx("h3", 2, "c1", IF a = "a1" THEN "A1" ELSE "A2", 1, 1),
                                           \* incoming, amount 0.1: the minimum
      Tx("h4", 3, "c1", a, 0, 1) }         \* incoming, amount 0: below the minimum

Hashes == {"h1", "h2", "h3", "h4"}

NoDup(s) == \A j, k \in 1..Len(s) : j # k => s[j] # s[k]

\* a response lists each record at most once, in any order
Responses(a, n) == {s \in SeqsUpTo(Feed(a), n) : NoDup(s)}

\* What axios.get resolves or rejects with.
Outcomes(a, n) ==
    [kind : {"OK"}, result : Responses(a, n)]
      \cup {[kind |-> "NOTOK", result |-> <<>>], [kind |-> "ERR", result |-> <<>>]}

getTokenTransfers(o) ==
    IF o.kind = "OK" THEN o.result ELSE <<>>

-----------------------------------------------------------------------------
(* The watch-list and blacklist stores *)

NewData(b) == [lastBlock |-> b, remark |-> NoRemark]

Keys(mon) == {mon[k].address : k \in 1..Len(mon)}

\* monitoredAddresses[address]: the reference of the data object, 0 if absent
RefOf(mon, address) ==
    IF address \in Keys(mon)
    THEN mon[CHOOSE k \in 1..Len(mon) : mon[k].address = address].ref
    ELSE 0

\* a key that every object inherits from Object.prototype (its value is
\* the function Object)
ProtoKeys == {"constructor"}

\* `obj[key]` is truthy: key is an own key (its value is an object) or an
\* inherited property (a function)
truthy(keys, key) == key \in keys \/ key \in ProtoKeys

\* JSON.stringify(monitoredAddresses): the keys in order, each with the
\* fields of its data object
Stringify(mon, hp) ==
    [k \in 1..Len(mon) |->
        [address |-> mon[k].address,
         lastBlock |-> hp[mon[k].ref].lastBlock,
         remark |-> hp[mon[k].ref].remark]]

\* JSON.parse of the text of addresses.json: fresh data objects, one per key
ParseKeys(data) ==
    [k \in 1..Len(data) |-> [address |-> data[k].address, ref |-> k]]

ParseHeap(data) ==
    [r \in Refs |->
        IF r <= Len(data)
        THEN [lastBlock |-> data[r].lastBlock, remark |-> data[r].remark]
        ELSE NewData(0)]

NoFile(empty) == [exists |-> FALSE, data |-> empty]

\* the file written by saveAddresses()
saveAddresses(mon, hp) == [exists |-> TRUE, data |-> Stringify(mon, hp)]

\* the file written by saveBlacklist()
saveBlacklist(bl) == [exists |-> TRUE, data |-> bl]

\* loadAddresses(): the keys, the heap, addresses.json and the blacklist after it
loadAddresses(env, file, blfile) ==
    LET fromEnv == <<[address |-> toLowerCase(env), ref |-> 1]>>
        mon == IF file.exists THEN ParseKeys(file.data)
               ELSE IF env # "" THEN fromEnv ELSE <<>>
        hp  == IF file.exists THEN ParseHeap(file.data)
               ELSE [r \in Refs |-> NewData(0)]
    IN  [mon  |-> mon,
         heap |-> hp,
         file |-> IF ~file.exists /\ env # "" THEN saveAddresses(mon, hp) ELSE file,
         bl   |-> IF blfile.exists THEN blfile.data ELSE {}]

-----------------------------------------------------------------------------
(* The filter pipeline *)

RECURSIVE Pow10(_)
\* Math.pow(10, d), saturated at 10^8: every raw value of the model times
\* MinDen is below it, so the comparison with the threshold is unchanged
Pow10(d) == IF d = 0 THEN 1 ELSE IF d >= 8 THEN 100000000 ELSE 10 * Pow10(d - 1)

\* parseInt(tx.tokenDecimal) || 18
decimalsOf(tx) == IF tx.tokenDecimal = 0 THEN DefaultDecimals ELSE tx.tokenDecimal

\* tx.to.toLowerCase() === monitorAddress.toLowerCase()
isIncoming(tx, monitorAddress) == toLowerCase(tx.to) = toLowerCase(monitorAddress)

\* amount < config.minTransferAmount, with amount = value / 10^decimals
amountBelowMin(tx) == tx.value * MinDen < MinNum * Pow10(decimalsOf(tx))

\* mutant: the blacklist is looked up with the contract address as received
formatTransactionCase(tx, monitorAddress, mon, hp, bl) ==
    IF tx.contractAddress \in bl THEN NoMsg
    ELSE IF isIncoming(tx, monitorAddress) /\ amountBelowMin(tx) THEN NoMsg
    ELSE [remark |-> "unnamed", incoming |-> isIncoming(tx, monitorAddress),
          hash |-> tx.hash, address |-> monitorAddress]

\* mutant: no check of the incoming amount
formatTransactionNoDust(tx, monitorAddress, mon, hp, bl) ==
    IF toLowerCase(tx.contractAddress) \in bl THEN NoMsg
    ELSE [remark |-> "unnamed", incoming |-> isIncoming(tx, monitorAddress),
          hash |-> tx.hash, address |-> monitorAddress]

\* formatTransaction(tx, monitorAddress): the rendered alert, or NoMsg
formatTransaction(tx, monitorAddress, mon, hp, bl) ==
    LET ref == RefOf(mon, toLowerCase(monitorAddress))
        remark == IF ref # 0 /\ hp[ref].remark # NoRemark
                  THEN hp[ref].remark ELSE "unnamed"
    IN  IF toLowerCase(tx.contractAddress) \in bl THEN NoMsg
        ELSE IF isIncoming(tx, monitorAddress) /\ amountBelowMin(tx) THEN NoMsg
        ELSE [remark |-> remark,
              incoming |-> isIncoming(tx, monitorAddress),
              hash |-> tx.hash,
              address |-> monitorAddress]

-----------------------------------------------------------------------------
(* Initial state: the process has been started, init() has not yet run *)

\* the key orders of the snapshots: both addresses, the first only, or none
AddrOrders == {<<>>, <<"a1">>, <<"a1", "a2">>}

\* the blacklists an earlier run may have left in blacklist.json
InitBlacklists == {{"c2"}}

\* the snapshots an earlier run may have left in addresses.json
Snapshots ==
    UNION {{[k \in 1..Len(o) |->
                [address |-> o[k], lastBlock |-> f[k], remark |-> NoRemark]] :
            f \in [1..Len(o) -> 0..MaxBlock]} : o \in AddrOrders}

WaitTick == [pc |-> "wait", entries |-> <<>>, startBlock |-> 0, txs |-> <<>>,
             i |-> 0, sent |-> <<>>, saves |-> 0]

DoneTick == [WaitTick EXCEPT !.pc = "done"]

Cmds == 1..MaxCmds

NoCmd == [pc |-> "idle", address |-> ""]

NoReply == [command |-> "", to |-> "", text |-> ""]

NoTx == Tx("", 0, "", "", 0, 0)

InitStoreOf(snapshots) ==
    /\ addressesFile \in {NoFile(<<>>)} \cup {[exists |-> TRUE, data |-> d] : d \in snapshots}
    \* the variable is read only when addresses.json does not exist
    /\ MONITOR_ADDRESS \in (IF addressesFile.exists THEN {""} ELSE {"", "A1"})
    /\ blacklistFile \in {NoFile({})} \cup {[exists |-> TRUE, data |-> b] : b \in InitBlacklists}

InitStore == InitStoreOf(Snapshots)

InitProgram ==
    /\ monitoredAddresses = <<>>
    /\ heap = [r \in Refs |-> NewData(0)]
    /\ blacklistedContracts = {}
    /\ isInitializing = TRUE
    /\ initProc = [pc |-> "start", entries |-> <<>>, synced |-> <<>>, summaries |-> 0]
    /\ tick = [t \in Ticks |-> WaitTick]
    /\ cmd = [k \in Cmds |-> NoCmd]
    /\ ncmds = 0
    /\ reply = NoReply
    /\ alerts = [a \in Addresses |-> [h \in Hashes |-> 0]]
    /\ loaded = <<>>
    /\ failed = [a \in Addresses |-> {}]

Init ==
    /\ InitStore
    /\ InitProgram
    /\ hist = [a \in Addresses |-> <<>>]
    /\ ftx = NoTx
    /\ fmsg = NoMsg

harnessVars == <<hist, ftx, fmsg>>
envVars == <<MONITOR_ADDRESS, blacklistFile, loaded, failed>>

-----------------------------------------------------------------------------
(* init() *)

\* a tick is inside the run between two I/O awaits
Busy == \E t \in Ticks : tick[t].pc \in {"loop", "next"}

\* init() up to its first await: loadAddresses(), then the first sync fetch,
\* or with an empty watch-list straight to the summary
InitStart ==
    /\ initProc.pc = "start"
    /\ LET L == loadAddresses(MONITOR_ADDRESS, addressesFile, blacklistFile)
       IN  /\ monitoredAddresses' = L.mon
           /\ heap' = L.heap
           /\ blacklistedContracts' = L.bl
           /\ loaded' = IF addressesFile.exists THEN addressesFile.data ELSE <<>>
           /\ IF L.mon = <<>>
              THEN /\ addressesFile' = saveAddresses(L.mon, L.heap)
                   /\ isInitializing' = FALSE
                   /\ initProc' = [initProc EXCEPT !.pc = "summary",
                                                   !.summaries = @ + 1]
              ELSE /\ addressesFile' = L.file
                   /\ isInitializing' = isInitializing
                   /\ initProc' = [initProc EXCEPT !.pc = "sync", !.entries = L.mon]
    /\ UNCHANGED <<MONITOR_ADDRESS, blacklistFile, tick, cmd, ncmds, reply, alerts,
                   failed, harnessVars>>

\* mutant: the block of the first record instead of the maximum
syncLastBlockFirst(lastBlock, txs) ==
    IF Len(txs) > 0 THEN txs[1].blockNumber ELSE lastBlock

\* data.lastBlock after one pass of the sync loop body
syncLastBlock(lastBlock, txs) ==
    IF Len(txs) > 0 THEN MaxBlockOf(txs) ELSE lastBlock

\* the sync fetch of the first remaining entry returns: the loop body, then
\* the next fetch, or after the last entry saveAddresses() and the summary
InitFetchReturn(o) ==
    /\ initProc.pc = "sync"
    /\ ~Busy
    /\ LET e == initProc.entries[1]
           txs == getTokenTransfers(o)
           rest == Tail(initProc.entries)
           hp == [heap EXCEPT ![e.ref].lastBlock = syncLastBlock(@, txs)]
       IN  /\ heap' = hp
           /\ IF rest = <<>>
              THEN /\ addressesFile' = saveAddresses(monitoredAddresses, hp)
                   /\ isInitializing' = FALSE
                   /\ initProc' = [pc |-> "summary", entries |-> <<>>,
                                   synced |-> Append(initProc.synced, e.address),
                                   summaries |-> initProc.summaries + 1]
              ELSE /\ initProc' = [initProc EXCEPT !.entries = rest,
                                                   !.synced = Append(@, e.address)]
                   /\ UNCHANGED <<addressesFile, isInitializing>>
    /\ UNCHANGED <<monitoredAddresses, blacklistedContracts, tick, cmd, ncmds,
                   reply, alerts, envVars, harnessVars>>

\* the send of the summary settles: setInterval(checkTransactions, interval)
InitSummaryReturn ==
    /\ initProc.pc = "summary"
    /\ ~Busy
    /\ initProc' = [initProc EXCEPT !.pc = "armed"]
    /\ UNCHANGED <<monitoredAddresses, heap, blacklistedContracts, isInitializing,
                   addressesFile, tick, cmd, ncmds, reply, alerts, envVars, harnessVars>>

-----------------------------------------------------------------------------
(* checkTransactions() *)

\* the activation at the head of its remaining entries: the call of
\* getTokenTransfers(address, data.lastBlock), or the end of the for loop
visit(entries, hp) ==
    IF entries = <<>> THEN DoneTick
    ELSE [pc |-> "fetch", entries |-> entries,
          startBlock |-> hp[entries[1].ref].lastBlock,
          txs |-> <<>>, i |-> 0, sent |-> <<>>, saves |-> 0]

\* mutant: the timer is armed before the sync loop
TickStartEarly(t) ==
    /\ initProc.pc \in {"sync", "summary", "armed"}
    /\ ~Busy
    /\ tick[t].pc = "wait"
    /\ t > 1 => tick[t - 1].pc # "wait"
    /\ tick' = [tick EXCEPT ![t] = visit(monitoredAddresses, heap)]
    /\ UNCHANGED <<monitoredAddresses, heap, blacklistedContracts, isInitializing,
                   addressesFile, initProc, cmd, ncmds, reply, alerts, envVars, harnessVars>>

\* the timer fires: Object.entries(monitoredAddresses) and the first fetch
TickStart(t) ==
    /\ initProc.pc = "armed"
    /\ ~Busy
    /\ tick[t].pc = "wait"
    /\ t > 1 => tick[t - 1].pc # "wait"
    /\ tick' = [tick EXCEPT ![t] = visit(monitoredAddresses, heap)]
    /\ UNCHANGED <<monitoredAddresses, heap, blacklistedContracts, isInitializing,
                   addressesFile, initProc, cmd, ncmds, reply, alerts, envVars, harnessVars>>

\* the fetch of the current entry returns
TickFetchReturn(t, o) ==
    /\ tick[t].pc = "fetch"
    /\ ~Busy
    /\ tick' = [tick EXCEPT ![t].pc = "loop",
                            ![t].txs = getTokenTransfers(o),
                            ![t].i = 1]
    /\ UNCHANGED <<monitoredAddresses, heap, blacklistedContracts, isInitializing,
                   addressesFile, initProc, cmd, ncmds, reply, alerts, envVars, harnessVars>>

\* mutant: the body runs for every record
isNewAlways(blockNum, lastBlock) == TRUE

\* mutant: a record at the cursor's block counts as new
isNewGeq(blockNum, lastBlock) == blockNum >= lastBlock

\* mutant: any record off the cursor's block counts as new
isNewNeq(blockNum, lastBlock) == blockNum # lastBlock

\* the test that guards the body of the record loop
isNew(blockNum, lastBlock) == blockNum > lastBlock

Bump(n) == IF n >= 2 THEN 2 ELSE n + 1

\* one pass of `for (const tx of transactions)` up to the await of the send
ProcessRecord(t) ==
    LET tk == tick[t]
        e == tk.entries[1]
        tx == tk.txs[tk.i]
        blockNum == tx.blockNumber
        msg == formatTransaction(tx, e.address, monitoredAddresses, heap,
                                 blacklistedContracts)
    IN  /\ tk.pc = "loop"
        /\ tk.i <= Len(tk.txs)
        /\ IF isNew(blockNum, heap[e.ref].lastBlock)
           THEN IF ~isInitializing /\ msg # NoMsg
                THEN \* await bot.sendMessage(config.chatId, message)
                     /\ tick' = [tick EXCEPT ![t].pc = "send",
                                             ![t].sent = Append(@, tx.hash)]
                     /\ alerts' = [alerts EXCEPT ![e.address][tx.hash] = Bump(@)]
                     /\ heap' = heap
                ELSE /\ heap' = [heap EXCEPT ![e.ref].lastBlock = blockNum]
                     /\ tick' = [tick EXCEPT ![t].i = @ + 1]
                     /\ alerts' = alerts
           ELSE /\ tick' = [tick EXCEPT ![t].i = @ + 1]
                /\ UNCHANGED <<heap, alerts>>
        /\ UNCHANGED <<monitoredAddresses, blacklistedContracts, isInitializing,
                       addressesFile, initProc, cmd, ncmds, reply, envVars, harnessVars>>

\* the send settles, delivered (ok) or rejected and swallowed by the catch of
\* sendNotification: data.lastBlock = blockNum, and the loop goes on.  The
\* two cases differ in the history variable only; SpecOverlap draws both,
\* the other specifications follow the delivered one.
SendReturn(t, ok) ==
    LET tk == tick[t]
        e == tk.entries[1]
        tx == tk.txs[tk.i]
    IN  /\ tk.pc = "send"
        /\ ~Busy
        /\ heap' = [heap EXCEPT ![e.ref].lastBlock = tx.blockNumber]
        /\ tick' = [tick EXCEPT ![t].pc = "loop", ![t].i = @ + 1]
        /\ failed' = IF ok THEN failed
                     ELSE [failed EXCEPT ![e.address] = @ \cup {tx.hash}]
        /\ UNCHANGED <<monitoredAddresses, blacklistedContracts, isInitializing,
                       addressesFile, initProc, cmd, ncmds, reply, alerts,
                       MONITOR_ADDRESS, blacklistFile, loaded, harnessVars>>

\* mutant: saveAddresses() after every fetch
EndLoopAlways(t) ==
    LET tk == tick[t]
    IN  /\ tk.pc = "loop"
        /\ tk.i > Len(tk.txs)
        /\ addressesFile' = saveAddresses(monitoredAddresses, heap)
        /\ tick' = [tick EXCEPT ![t].pc = "next", ![t].saves = @ + 1]
        /\ UNCHANGED <<monitoredAddresses, heap, blacklistedContracts, isInitializing,
                       initProc, cmd, ncmds, reply, alerts, envVars, harnessVars>>

\* the record loop is over: saveAddresses() when transactions.length > 0
EndLoop(t) ==
    LET tk == tick[t]
    IN  /\ tk.pc = "loop"
        /\ tk.i > Len(tk.txs)
        /\ IF Len(tk.txs) > 0
           THEN /\ addressesFile' = saveAddresses(monitoredAddresses, heap)
                /\ tick' = [tick EXCEPT ![t].pc = "next", ![t].saves = @ + 1]
           ELSE /\ addressesFile' = addressesFile
                /\ tick' = [tick EXCEPT ![t].pc = "next"]
        /\ UNCHANGED <<monitoredAddresses, heap, blacklistedContracts, isInitializing,
                       initProc, cmd, ncmds, reply, alerts, envVars, harnessVars>>

\* the next entry of the list taken at the start of the tick
NextAddress(t) ==
    /\ tick[t].pc = "next"
    /\ tick' = [tick EXCEPT ![t] = visit(Tail(tick[t].entries), heap)]
    /\ UNCHANGED <<monitoredAddresses, heap, blacklistedContracts, isInitializing,
                   addressesFile, initProc, cmd, ncmds, reply, alerts, envVars, harnessVars>>

-----------------------------------------------------------------------------
(* Chat commands.  The k-th command handled in the run has activation cmd[k]. *)

\* /^0x[a-f0-9]{40}$/i.test(s): addresses and contracts have the same shape
wellFormed(s) == toLowerCase(s) \in Addresses \cup Contracts \cup {"x9"}

AddInputs == {"a1", "A2", "zz"}
RemoveInputs == {"a1", "A2", "constructor"}
RemarkInputs == {"a1", "A2", "constructor"}
Remarks == {"r1"}
BlacklistInputs == {"C2", "zz"}
UnblacklistInputs == {"C2", "constructor"}

CanHandle ==
    /\ initProc.pc # "start"
    /\ ~Busy
    /\ ncmds < MaxCmds

\* the data object created by the k-th command
NewRef(k) == Cardinality(Addresses) + k

\* monitoredAddresses[address] = { lastBlock }: a new key goes last, an
\* existing key keeps its place and gets the new object
setKey(mon, address, ref) ==
    IF address \in Keys(mon)
    THEN [j \in 1..Len(mon) |->
            IF mon[j].address = address THEN [address |-> address, ref |-> ref]
            ELSE mon[j]]
    ELSE Append(mon, [address |-> address, ref |-> ref])

\* delete monitoredAddresses[address]
deleteKey(mon, address) == SelectSeq(mon, LAMBDA e : e.address # address)

\* /add up to its await: format check, already-monitored check, history fetch
AddStart(input) ==
    LET k == ncmds + 1
        address == toLowerCase(input)
    IN  /\ CanHandle
        /\ ncmds' = k
        /\ IF ~wellFormed(address)
           THEN /\ reply' = [command |-> "add", to |-> address, text |-> "format"]
                /\ cmd' = cmd
           ELSE IF RefOf(monitoredAddresses, address) # 0
           THEN /\ reply' = [command |-> "add", to |-> address, text |-> "already"]
                /\ cmd' = cmd
           ELSE /\ reply' = reply
                /\ cmd' = [cmd EXCEPT ![k] = [pc |-> "fetch", address |-> address]]
        /\ UNCHANGED <<monitoredAddresses, heap, blacklistedContracts, isInitializing,
                       addressesFile, initProc, tick, alerts, envVars, harnessVars>>

\* lastBlock computed by /add from the history it fetched
addLastBlock(txs) == IF Len(txs) > 0 THEN MaxBlockOf(txs) ELSE 0

\* the history fetch of /add returns: insert, saveAddresses(), reply
AddFetchReturn(k, o) ==
    LET address == cmd[k].address
        mon == setKey(monitoredAddresses, address, NewRef(k))
        hp == [heap EXCEPT ![NewRef(k)] = NewData(addLastBlock(getTokenTransfers(o)))]
    IN  /\ cmd[k].pc = "fetch"
        /\ ~Busy
        /\ monitoredAddresses' = mon
        /\ heap' = hp
        /\ addressesFile' = saveAddresses(mon, hp)
        /\ cmd' = [cmd EXCEPT ![k] = NoCmd]
        /\ reply' = [command |-> "add", to |-> address, text |-> "added"]
        /\ UNCHANGED <<blacklistedContracts, isInitializing, initProc, tick, ncmds,
                       alerts, envVars, harnessVars>>

\* /remove: `delete` of a key that is not an own key changes nothing
Remove(input) ==
    LET k == ncmds + 1
        address == toLowerCase(input)
        mon == deleteKey(monitoredAddresses, address)
    IN  /\ CanHandle
        /\ ncmds' = k
        /\ IF ~truthy(Keys(monitoredAddresses), address)
           THEN /\ reply' = [command |-> "remove", to |-> address, text |-> "absent"]
                /\ UNCHANGED <<monitoredAddresses, addressesFile>>
           ELSE /\ monitoredAddresses' = mon
                /\ addressesFile' = saveAddresses(mon, heap)
                /\ reply' = [command |-> "remove", to |-> address, text |-> "removed"]
        /\ UNCHANGED <<heap, blacklistedContracts, isInitializing, initProc, tick,
                       cmd, alerts, envVars, harnessVars>>

\* /remark: the assignment to .remark lands on the data object of an own
\* key, and on the inherited function otherwise
Remark(input, remark) ==
    LET k == ncmds + 1
        address == toLowerCase(input)
        ref == RefOf(monitoredAddresses, address)
        hp == IF ref # 0 THEN [heap EXCEPT ![ref].remark = remark] ELSE heap
    IN  /\ CanHandle
        /\ ncmds' = k
        /\ IF ~truthy(Keys(monitoredAddresses), address)
           THEN /\ reply' = [command |-> "remark", to |-> address, text |-> "absent"]
                /\ UNCHANGED <<heap, addressesFile>>
           ELSE /\ heap' = hp
                /\ addressesFile' = saveAddresses(monitoredAddresses, hp)
                /\ reply' = [command |-> "remark", to |-> address, text |-> "set"]
        /\ UNCHANGED <<monitoredAddresses, blacklistedContracts, isInitializing,
                       initProc, tick, cmd, alerts, envVars, harnessVars>>

\* /blacklist
Blacklist(input) ==
    LET k == ncmds + 1
        contractAddress == toLowerCase(input)
        bl == blacklistedContracts \cup {contractAddress}
    IN  /\ CanHandle
        /\ ncmds' = k
        /\ IF ~wellFormed(contractAddress)
           THEN /\ reply' = [command |-> "blacklist", to |-> contractAddress, text |-> "format"]
                /\ UNCHANGED <<blacklistedContracts, blacklistFile>>
           ELSE IF contractAddress \in blacklistedContracts
           THEN /\ reply' = [command |-> "blacklist", to |-> contractAddress, text |-> "already"]
                /\ UNCHANGED <<blacklistedContracts, blacklistFile>>
           ELSE /\ blacklistedContracts' = bl
                /\ blacklistFile' = saveBlacklist(bl)
                /\ reply' = [command |-> "blacklist", to |-> contractAddress, text |-> "added"]
        /\ UNCHANGED <<monitoredAddresses, heap, isInitializing, addressesFile,
                       initProc, tick, cmd, alerts, MONITOR_ADDRESS, loaded, failed, harnessVars>>

\* /unblacklist
Unblacklist(input) ==
    LET k == ncmds + 1
        contractAddress == toLowerCase(input)
        bl == blacklistedContracts \ {contractAddress}
    IN  /\ CanHandle
        /\ ncmds' = k
        /\ IF ~truthy(blacklistedContracts, contractAddress)
           THEN /\ reply' = [command |-> "unblacklist", to |-> contractAddress, text |-> "absent"]
                /\ UNCHANGED <<blacklistedContracts, blacklistFile>>
           ELSE /\ blacklistedContracts' = bl
                /\ blacklistFile' = saveBlacklist(bl)
                /\ reply' = [command |-> "unblacklist", to |-> contractAddress, text |-> "removed"]
        /\ UNCHANGED <<monitoredAddresses, heap, isInitializing, addressesFile,
                       initProc, tick, cmd, alerts, MONITOR_ADDRESS, loaded, failed, harnessVars>>

-----------------------------------------------------------------------------
(* Specifications *)

\* no activation of checkTransactions() is under way
Quiet == \A t \in Ticks : tick[t].pc \in {"wait", "done"}

\* Spec: timer firings may overlap; no chat command
Next ==
    \/ InitStart
    \/ /\ initProc.pc = "sync"
       /\ \E o \in Outcomes(initProc.entries[1].address, MaxLen) : InitFetchReturn(o)
    \/ InitSummaryReturn
    \/ \E t \in Ticks : TickStart(t)
    \/ \E t \in Ticks :
          /\ tick[t].pc = "fetch"
          /\ \E o \in Outcomes(tick[t].entries[1].address, MaxLen) : TickFetchReturn(t, o)
    \/ \E t \in Ticks : ProcessRecord(t)
    \/ \E t \in Ticks : SendReturn(t, TRUE)
    \/ \E t \in Ticks : EndLoop(t)
    \/ \E t \in Ticks : NextAddress(t)

Spec == Init /\ [][Next]_vars

\* SpecCmd: chat commands arrive at any await; every tick ends before the
\* next one starts; the snapshot found at start has at most one address
InitCmd ==
    /\ InitStoreOf({d \in Snapshots : Len(d) <= 1})
    /\ InitProgram
    /\ hist = [a \in Addresses |-> <<>>]
    /\ ftx = NoTx
    /\ fmsg = NoMsg

ChatOpen == ncmds < MaxCmdsCmd

NextCmd ==
    \/ InitStart
    \/ /\ initProc.pc = "sync"
       /\ \E o \in Outcomes(initProc.entries[1].address, MaxLen) : InitFetchReturn(o)
    \/ InitSummaryReturn
    \/ \E t \in 1..MaxTicksCmd : Quiet /\ TickStart(t)
    \/ \E t \in Ticks :
          /\ tick[t].pc = "fetch"
          /\ \E o \in Outcomes(tick[t].entries[1].address, MaxLen) : TickFetchReturn(t, o)
    \/ \E t \in Ticks : ProcessRecord(t)
    \/ \E t \in Ticks : SendReturn(t, TRUE)
    \/ \E t \in Ticks : EndLoop(t)
    \/ \E t \in Ticks : NextAddress(t)
    \/ \E input \in AddInputs : ChatOpen /\ AddStart(input)
    \/ \E k \in Cmds :
          /\ cmd[k].pc = "fetch"
          /\ \E o \in Outcomes(cmd[k].address, MaxLen) : AddFetchReturn(k, o)
    \/ \E input \in RemoveInputs : ChatOpen /\ Remove(input)
    \/ \E input \in BlacklistInputs : ChatOpen /\ Blacklist(input)
    \/ \E input \in UnblacklistInputs : ChatOpen /\ Unblacklist(input)

SpecCmd == InitCmd /\ [][NextCmd]_vars

\* SpecChat: SpecCmd with the /remark command
NextChat ==
    \/ NextCmd
    \/ \E input \in RemarkInputs : \E remark \in Remarks :
          ChatOpen /\ Remark(input, remark)

SpecChat == InitCmd /\ [][NextChat]_vars

\* SpecSeq: every tick ends before the next one starts, no chat command
NextSeq ==
    \/ InitStart
    \/ /\ initProc.pc = "sync"
       /\ \E o \in Outcomes(initProc.entries[1].address, MaxLenSeq) : InitFetchReturn(o)
    \/ InitSummaryReturn
    \/ \E t \in Ticks : Quiet /\ TickStart(t)
    \/ \E t \in Ticks :
          /\ tick[t].pc = "fetch"
          /\ \E o \in Outcomes(tick[t].entries[1].address, MaxLenSeq) : TickFetchReturn(t, o)
    \/ \E t \in Ticks : ProcessRecord(t)
    \/ \E t \in Ticks : SendReturn(t, TRUE)
    \/ \E t \in Ticks : EndLoop(t)
    \/ \E t \in Ticks : NextAddress(t)

SpecSeq == Init /\ [][NextSeq]_vars

-----------------------------------------------------------------------------
(* SpecFixed: the feed serves one fixed history.  hist[a] is what the      *)
(* explorer holds for address a; a fetch returns all of it, or the part at *)
(* or above the startblock parameter.                                      *)

HistOf(a) == hist[a]

FromBlock(txs, startBlock) == SelectSeq(txs, LAMBDA tx : tx.blockNumber >= startBlock)

FixedOutcomes(a, startBlock) ==
    {[kind |-> "OK", result |-> HistOf(a)],
     [kind |-> "OK", result |-> FromBlock(HistOf(a), startBlock)]}

\* the same hashes, in the same order, for every address
Histories ==
    {[a \in Addresses |->
        [k \in 1..Len(hs) |-> CHOOSE tx \in Feed(a) : tx.hash = hs[k]]] :
     hs \in {s \in SeqsUpTo(Hashes, MaxLenSeq) : NoDup(s) /\ Len(s) > 0}}

InitFixed ==
    /\ InitStore
    /\ InitProgram
    /\ hist \in Histories
    /\ ftx = NoTx
    /\ fmsg = NoMsg

\* No send is awaited under SpecFixed (that is C7), so the step that resumes
\* a tick after its send, SendReturn, has no place in NextFixed.
NextFixed ==
    \/ InitStart
    \/ /\ initProc.pc = "sync"
       /\ \E o \in FixedOutcomes(initProc.entries[1].address, 0) : InitFetchReturn(o)
    \/ InitSummaryReturn
    \/ \E t \in Ticks : Quiet /\ TickStart(t)
    \/ \E t \in Ticks :
          /\ tick[t].pc = "fetch"
          /\ \E o \in FixedOutcomes(tick[t].entries[1].address, tick[t].startBlock) :
                TickFetchReturn(t, o)
    \/ \E t \in Ticks : ProcessRecord(t)
    \/ \E t \in Ticks : EndLoop(t)
    \/ \E t \in Ticks : NextAddress(t)
    \/ \E input \in AddInputs : ChatOpen /\ AddStart(input)
    \/ \E k \in Cmds :
          /\ cmd[k].pc = "fetch"
          /\ \E o \in FixedOutcomes(cmd[k].address, 0) : AddFetchReturn(k, o)

SpecFixed == InitFixed /\ [][NextFixed]_vars

-----------------------------------------------------------------------------
(* SpecAdd: /add and /remark commands arrive at any await, also while the  *)
(* history fetch of an earlier /add is under way; no timer firing.         *)

NextAdd ==
    \/ InitStart
    \/ /\ initProc.pc = "sync"
       /\ \E o \in Outcomes(initProc.entries[1].address, MaxLen) : InitFetchReturn(o)
    \/ InitSummaryReturn
    \/ \E input \in AddInputs : AddStart(input)
    \/ \E k \in Cmds :
          /\ cmd[k].pc = "fetch"
          /\ \E o \in Outcomes(cmd[k].address, MaxLen) : AddFetchReturn(k, o)
    \/ \E input \in RemarkInputs : \E remark \in Remarks : Remark(input, remark)

SpecAdd == InitCmd /\ [][NextAdd]_vars

-----------------------------------------------------------------------------
(* SpecOverlap: timer firings may overlap, responses hold up to            *)
(* MaxLenOverlap records, a send is delivered or rejected; no chat         *)
(* command; the snapshot found at start has at most one address.           *)

NextOverlap ==
    \/ InitStart
    \/ /\ initProc.pc = "sync"
       /\ \E o \in Outcomes(initProc.entries[1].address, MaxLenOverlap) :
             InitFetchReturn(o)
    \/ InitSummaryReturn
    \/ \E t \in Ticks : TickStart(t)
    \/ \E t \in Ticks :
          /\ tick[t].pc = "fetch"
          /\ \E o \in Outcomes(tick[t].entries[1].address, MaxLenOverlap) :
                TickFetchReturn(t, o)
    \/ \E t \in Ticks : ProcessRecord(t)
    \/ \E t \in Ticks : \E ok \in BOOLEAN : SendReturn(t, ok)
    \/ \E t \in Ticks : EndLoop(t)
    \/ \E t \in Ticks : NextAddress(t)

SpecOverlap == InitCmd /\ [][NextOverlap]_vars

-----------------------------------------------------------------------------
(* SpecFlaky: the feed holds one fixed history and any fetch may fail: the *)
(* request is rejected or times out, or the explorer answers without the   *)
(* message OK.  Every tick ends before the next one starts.                *)

FlakyOutcomes(a, startBlock) ==
    FixedOutcomes(a, startBlock)
      \cup {[kind |-> "NOTOK", result |-> <<>>], [kind |-> "ERR", result |-> <<>>]}

NextFlaky ==
    \/ InitStart
    \/ /\ initProc.pc = "sync"
       /\ \E o \in FlakyOutcomes(initProc.entries[1].address, 0) : InitFetchReturn(o)
    \/ InitSummaryReturn
    \/ \E t \in Ticks : Quiet /\ TickStart(t)
    \/ \E t \in Ticks :
          /\ tick[t].pc = "fetch"
          /\ \E o \in FlakyOutcomes(tick[t].entries[1].address, tick[t].startBlock) :
                TickFetchReturn(t, o)
    \/ \E t \in Ticks : ProcessRecord(t)
    \/ \E t \in Ticks : SendReturn(t, TRUE)
    \/ \E t \in Ticks : EndLoop(t)
    \/ \E t \in Ticks : NextAddress(t)

SpecFlaky == InitFixed /\ [][NextFlaky]_vars

-----------------------------------------------------------------------------
(* SpecLive: SpecFlaky with a timer that fires for ever.  An activation    *)
(* that has returned is taken again for a later firing.  The feed holds a  *)
(* fixed history, sorted by block as the request asks (sort: asc).         *)

Ascending(txs) ==
    \A j, k \in 1..Len(txs) : j < k => txs[j].blockNumber <= txs[k].blockNumber

LiveHistories ==
    {H \in Histories : Len(H["a1"]) <= MaxLenLive /\ Ascending(H["a1"])}

InitLive ==
    /\ InitStoreOf({d \in Snapshots : Len(d) <= 1})
    /\ InitProgram
    /\ hist \in LiveHistories
    /\ ftx = NoTx
    /\ fmsg = NoMsg

\* the next firing of the timer finds the activation t returned
TimerAgain(t) ==
    /\ tick[t].pc = "done"
    /\ ~Busy
    /\ tick' = [tick EXCEPT ![t] = WaitTick]
    /\ UNCHANGED <<monitoredAddresses, heap, blacklistedContracts, isInitializing,
                   addressesFile, initProc, cmd, ncmds, reply, alerts, envVars, harnessVars>>

InitFetchLive ==
    /\ initProc.pc = "sync"
    /\ \E o \in FlakyOutcomes(initProc.entries[1].address, 0) : InitFetchReturn(o)

TickFetchLive ==
    \E t \in Ticks :
        /\ tick[t].pc = "fetch"
        /\ \E o \in FlakyOutcomes(tick[t].entries[1].address, tick[t].startBlock) :
              TickFetchReturn(t, o)

\* the fetch of a tick succeeds
TickFetchOK ==
    \E t \in Ticks :
        /\ tick[t].pc = "fetch"
        /\ \E o \in FixedOutcomes(tick[t].entries[1].address, tick[t].startBlock) :
              TickFetchReturn(t, o)

TickStartLive == \E t \in Ticks : Quiet /\ TickStart(t)

TickStep ==
    \E t \in Ticks :
        ProcessRecord(t) \/ SendReturn(t, TRUE) \/ EndLoop(t) \/ NextAddress(t)

NextLive ==
    \/ InitStart
    \/ InitFetchLive
    \/ InitSummaryReturn
    \/ TickStartLive
    \/ TickFetchLive
    \/ TickStep
    \/ \E t \in Ticks : TimerAgain(t)

\* every await settles, the timer keeps firing, and the fetch of a tick
\* succeeds again and again
FairLive ==
    /\ WF_vars(InitStart)
    /\ WF_vars(InitFetchLive)
    /\ WF_vars(InitSummaryReturn)
    /\ WF_vars(TickStartLive)
    /\ WF_vars(TickFetchLive)
    /\ SF_vars(TickFetchOK)
    /\ WF_vars(TickStep)
    /\ WF_vars(\E t \in Ticks : TimerAgain(t))

SpecLive == InitLive /\ [][NextLive]_vars /\ FairLive

-----------------------------------------------------------------------------
(* SpecFilter: formatTransaction applied to one record of address a1 *)

Pending == [remark |-> "pending", incoming |-> FALSE, hash |-> "", address |-> ""]

FilterInputs ==
    {Tx("h0", 1, c, to, v, d) :
        c \in {"c1", "C2"}, to \in {"a1", "A1", "x9"},
        v \in 0..MaxValue, d \in 0..MaxDecimals}

\* a1 is monitored, the blacklist is any set of contracts
InitFilter ==
    /\ MONITOR_ADDRESS = ""
    /\ addressesFile = saveAddresses(<<[address |-> "a1", ref |-> 1]>>,
                                     [r \in Refs |-> NewData(0)])
    /\ blacklistedContracts \in SUBSET Contracts
    /\ blacklistFile = saveBlacklist(blacklistedContracts)
    /\ monitoredAddresses = <<[address |-> "a1", ref |-> 1]>>
    /\ heap = [r \in Refs |-> NewData(0)]
    /\ isInitializing = FALSE
    /\ initProc = [pc |-> "armed", entries |-> <<>>, synced |-> <<>>, summaries |-> 1]
    /\ tick = [t \in Ticks |-> WaitTick]
    /\ cmd = [k \in Cmds |-> NoCmd]
    /\ ncmds = 0
    /\ reply = NoReply
    /\ alerts = [a \in Addresses |-> [h \in Hashes |-> 0]]
    /\ loaded = <<>>
    /\ failed = [a \in Addresses |-> {}]
    /\ hist = [a \in Addresses |-> <<>>]
    /\ ftx \in FilterInputs
    /\ fmsg = Pending

ApplyFilter ==
    /\ fmsg = Pending
    /\ fmsg' = formatTransaction(ftx, "a1", monitoredAddresses, heap,
                                 blacklistedContracts)
    /\ UNCHANGED <<MONITOR_ADDRESS, addressesFile, blacklistFile, monitoredAddresses,
                   heap, blacklistedContracts, isInitializing, initProc, tick,
                   cmd, ncmds, reply, alerts, loaded, failed, hist, ftx>>

NextFilter == ApplyFilter

SpecFilter == InitFilter /\ [][NextFilter]_vars

-----------------------------------------------------------------------------
(* Properties *)

\* the entry a tick is visiting
VisitAddress(t) == tick[t].entries[1].address
VisitData(t) == heap[tick[t].entries[1].ref]

\* the visit of an entry is over (the record loop and saveAddresses() are done)
Visited(t) == tick[t].pc = "next"

\* suppression as the filter pipeline is specified: blacklisted token, or
\* incoming with value / 10^tokenDecimal below the minimum
Blacklisted(tx, bl) == toLowerCase(tx.contractAddress) \in bl
Dust(tx, a) == toLowerCase(tx.to) = a /\ tx.value * MinDen < MinNum * Pow10(tx.tokenDecimal)
Suppressed(tx, a, bl) == Blacklisted(tx, bl) \/ Dust(tx, a)

BlockOfHash(h) == (CHOOSE tx \in Feed("a1") : tx.hash = h).blockNumber

\* C1: at the end of the visit of an address in a poll tick, every record of
\* the response with a block above the lastBlock the fetch was made from,
\* and not suppressed by the blacklist or the dust threshold, has been
\* dispatched as an alert.
C1_NoMissedTransfer ==
    \A t \in Ticks :
        Visited(t) =>
            \A k \in 1..Len(tick[t].txs) :
                LET tx == tick[t].txs[k]
                IN  (/\ tx.blockNumber > tick[t].startBlock
                     /\ ~Suppressed(tx, VisitAddress(t), blacklistedContracts))
                    => tx.hash \in Range(tick[t].sent)

\* C3: once the poll timer is armed, no step of a poll tick lowers the
\* lastBlock of any data object (ticks do not overlap under SpecSeq).
C3_MonotonicAcrossTicks ==
    [][initProc.pc = "armed" =>
          \A r \in Refs : heap'[r].lastBlock >= heap[r].lastBlock]_vars

\* a visit whose response was out of order has ended with lastBlock at the
\* highest block of the response, above the block it started from
C3_Witness ==
    \E t \in Ticks :
        /\ Visited(t)
        /\ Len(tick[t].txs) >= 2
        /\ tick[t].txs[1].blockNumber > tick[t].txs[2].blockNumber
        /\ tick[t].txs[1].blockNumber > tick[t].startBlock
        /\ VisitData(t).lastBlock = tick[t].txs[1].blockNumber

\* C4: after loadAddresses, the lastBlock of every entry read from the
\* snapshot stays at or above the value read, through the startup sync.
C4_SyncNonRegressing ==
    \A k \in 1..Len(loaded) : heap[k].lastBlock >= loaded[k].lastBlock

\* C5: no record with a block at or below the lastBlock that the snapshot
\* held for an address at start is dispatched as an alert for that address.
C5_NoRenotifyAfterRestart ==
    \A k \in 1..Len(loaded) : \A h \in Hashes :
        alerts[loaded[k].address][h] > 0 => BlockOfHash(h) > loaded[k].lastBlock

\* C6: a visit that started from lastBlock = B and whose response holds only
\* records with block <= B ends with no alert dispatched and lastBlock = B.
C6_NoReplayWithinTick ==
    \A t \in Ticks :
        (/\ Visited(t)
         /\ \A k \in 1..Len(tick[t].txs) :
               tick[t].txs[k].blockNumber <= tick[t].startBlock)
        => /\ tick[t].sent = <<>>
           /\ VisitData(t).lastBlock = tick[t].startBlock

\* such a visit has ended: the response was not empty and held a record at B
C6_Witness ==
    \E t \in Ticks :
        /\ Visited(t)
        /\ Len(tick[t].txs) >= 2
        /\ \A k \in 1..Len(tick[t].txs) :
              tick[t].txs[k].blockNumber <= tick[t].startBlock
        /\ \E k \in 1..Len(tick[t].txs) :
              tick[t].txs[k].blockNumber = tick[t].startBlock
        /\ tick[t].sent = <<>>
        /\ VisitData(t).lastBlock = tick[t].startBlock

\* C2: within one run, bot.sendMessage is called at most once for a transfer
\* record and a monitored address.
C2_NoDuplicate ==
    \A a \in Addresses : \A h \in Hashes : alerts[a][h] <= 1

\* C7: with a feed that serves one fixed non-empty history per address, no
\* transfer alert is ever dispatched, and every visit of a poll tick ends
\* with lastBlock at the highest block of the history.
C7_BootstrapSuppression ==
    /\ \A a \in Addresses : \A h \in Hashes : alerts[a][h] = 0
    /\ \A t \in Ticks :
          Visited(t) => VisitData(t).lastBlock = MaxBlockOf(HistOf(VisitAddress(t)))

\* a1 came from the snapshot and was synced, a2 was added by /add; a tick
\* has visited a1 and now a2, whose history has three records in ascending
\* blocks, one of them not suppressed, and was given the whole history
C7_Witness ==
    \E t \in Ticks :
        /\ Visited(t)
        /\ Len(loaded) = 1
        /\ VisitAddress(t) = "a2"
        /\ reply = [command |-> "add", to |-> "a2", text |-> "added"]
        /\ heap[RefOf(monitoredAddresses, "a1")].lastBlock = MaxBlockOf(HistOf("a1"))
        /\ tick[t].txs = HistOf(VisitAddress(t))
        /\ Len(tick[t].txs) = 3
        /\ tick[t].txs[1].blockNumber < tick[t].txs[2].blockNumber
        /\ tick[t].txs[2].blockNumber < tick[t].txs[3].blockNumber
        /\ \E k \in 1..3 : ~Suppressed(tick[t].txs[k], VisitAddress(t), blacklistedContracts)
        /\ VisitData(t).lastBlock = tick[t].txs[3].blockNumber
        /\ \A h \in Hashes : alerts[VisitAddress(t)][h] = 0

\* C8: the pass of the record loop over a record whose token contract is in
\* the blacklist dispatches no alert and leaves lastBlock at the larger of
\* its old value and the record's block.
C8_BlacklistSuppression ==
    [][\A t \in Ticks :
          (/\ tick[t].pc = "loop"
           /\ tick[t].i <= Len(tick[t].txs)
           /\ Blacklisted(tick[t].txs[tick[t].i], blacklistedContracts))
          => /\ alerts' = alerts
             /\ tick'[t].pc = "loop"
             /\ tick'[t].sent = tick[t].sent
             /\ heap'[tick[t].entries[1].ref].lastBlock =
                   Max(VisitData(t).lastBlock, tick[t].txs[tick[t].i].blockNumber)]_vars

\* a record of a contract that /blacklist added during the run has just been
\* passed over: no alert, and lastBlock moved up to its block
C8_Witness ==
    \E t \in Ticks :
        /\ tick[t].pc = "loop"
        /\ tick[t].i = 2
        /\ Blacklisted(tick[t].txs[1], blacklistedContracts)
        /\ tick[t].txs[1].blockNumber > tick[t].startBlock
        /\ VisitData(t).lastBlock = tick[t].txs[1].blockNumber
        /\ tick[t].sent = <<>>
        /\ reply.command = "blacklist" /\ reply.text = "added"

\* C9: a record whose token is not blacklisted is suppressed exactly when it
\* is incoming and value / 10^tokenDecimal is below the minimum.
C9_ThresholdBoundary ==
    (fmsg # Pending /\ ~Blacklisted(ftx, blacklistedContracts))
    => ((fmsg = NoMsg) <=> Dust(ftx, "a1"))

\* C10: a visit that started from lastBlock = B, with a response that has
\* records above B, all of them suppressed, ends with lastBlock at the
\* highest block of the response, no alert dispatched and one saveAddresses().
C10_SuppressedBatch ==
    \A t \in Ticks :
        (/\ Visited(t)
         /\ \E k \in 1..Len(tick[t].txs) :
               tick[t].txs[k].blockNumber > tick[t].startBlock
         /\ \A k \in 1..Len(tick[t].txs) :
               tick[t].txs[k].blockNumber > tick[t].startBlock
               => Suppressed(tick[t].txs[k], VisitAddress(t), blacklistedContracts))
        => /\ VisitData(t).lastBlock = MaxBlockOf(tick[t].txs)
           /\ tick[t].sent = <<>>
           /\ tick[t].saves = 1

\* the batch of the example: blocks B, B+1, B+2, the second blacklisted, the
\* third an incoming transfer below the minimum
C10_Witness ==
    \E t \in Ticks :
        /\ Visited(t)
        /\ tick[t].startBlock = 1
        /\ Len(tick[t].txs) = 3
        /\ tick[t].txs[1].blockNumber = 1
        /\ tick[t].txs[2].blockNumber = 2
        /\ Blacklisted(tick[t].txs[2], blacklistedContracts)
        /\ tick[t].txs[3].blockNumber = 3
        /\ ~Blacklisted(tick[t].txs[3], blacklistedContracts)
        /\ Dust(tick[t].txs[3], VisitAddress(t))
        /\ VisitData(t).lastBlock = 3
        /\ tick[t].sent = <<>>
        /\ tick[t].saves = 1

\* the case of a command, given its reply r and the stores it found, in which
\* it is to be rejected
RejectCase(r, mon, bl) ==
    \/ r.command = "add" /\ (~wellFormed(r.to) \/ r.to \in Keys(mon))
    \/ r.command \in {"remove", "remark"} /\ r.to \notin Keys(mon)
    \/ r.command = "blacklist" /\ (~wellFormed(r.to) \/ r.to \in bl)
    \/ r.command = "unblacklist" /\ r.to \notin bl

IsError(r) == r.text \in {"format", "already", "absent"}

\* C11: a command that is handled in one step and falls under a rejected
\* case (add of a monitored or malformed address, remove or remark of an
\* address that is not a key of the watch-list, blacklist of a malformed or
\* blacklisted contract, unblacklist of an absent contract) replies with an
\* error and leaves the watch-list, the data objects, the blacklist and both
\* files as they were.
C11_RejectedUnchanged ==
    [][(/\ ncmds' = ncmds + 1
        /\ cmd' = cmd
        /\ RejectCase(reply', monitoredAddresses, blacklistedContracts))
       => /\ IsError(reply')
          /\ UNCHANGED <<monitoredAddresses, heap, blacklistedContracts,
                         addressesFile, blacklistFile>>]_vars

\* C12: whatever the sync fetches returned, no record of the history that
\* the feed held for an address when the process started is dispatched as an
\* alert for that address.
C12_NoStartupStorm ==
    \A a \in Addresses : \A k \in 1..Len(HistOf(a)) :
        alerts[a][HistOf(a)[k].hash] = 0

\* C13: until the sync is over isInitializing is set, no summary has been
\* sent and no alert dispatched; from then on exactly one summary has been
\* sent and the sync has visited every address of the snapshot, in order; no
\* tick starts before the timer is armed; and when the timer is armed and no
\* tick has started yet, addresses.json holds the watch-list as it is in
\* memory.
C13_StartupOrdering ==
    /\ initProc.pc \in {"start", "sync"} =>
          /\ isInitializing
          /\ initProc.summaries = 0
          /\ \A a \in Addresses : \A h \in Hashes : alerts[a][h] = 0
    /\ initProc.pc \in {"summary", "armed"} =>
          /\ ~isInitializing
          /\ initProc.summaries = 1
          /\ \A k \in 1..Len(loaded) :
                k <= Len(initProc.synced) /\ initProc.synced[k] = loaded[k].address
          /\ addressesFile.exists
    /\ initProc.pc # "armed" => \A t \in Ticks : tick[t].pc = "wait"
    /\ (initProc.pc = "armed" /\ \A t \in Ticks : tick[t].pc = "wait") =>
          addressesFile = saveAddresses(monitoredAddresses, heap)

\* a snapshot of two addresses was loaded, the sync moved the lastBlock of
\* both, the summary went out, and the first tick has dispatched an alert
C13_Witness ==
    /\ initProc.pc = "armed"
    /\ Len(loaded) = 2
    /\ initProc.synced = <<"a1", "a2">>
    /\ \A k \in 1..2 : addressesFile.data[k].lastBlock > loaded[k].lastBlock
    /\ initProc.summaries = 1
    /\ \E h \in Hashes : alerts["a1"][h] = 1

\* C14: the step in which the send of an alert is rejected sets lastBlock to
\* the record's block and moves the tick on to the next record of the
\* response; and an alert whose send was rejected is not dispatched again,
\* by any tick.
C14_FailureSwallowed ==
    [][/\ \A t \in Ticks :
             (tick[t].pc = "send" /\ tick'[t].pc # "send" /\ failed' # failed)
             => /\ heap'[tick[t].entries[1].ref].lastBlock =
                      tick[t].txs[tick[t].i].blockNumber
                /\ tick'[t].pc = "loop"
                /\ tick'[t].i = tick[t].i + 1
                /\ tick'[t].entries = tick[t].entries
       /\ \A a \in Addresses : \A h \in failed[a] : alerts'[a][h] = alerts[a][h]]_vars

\* C15: the steps of a visit whose fetch gave no records (failed, or an
\* empty result) change no data object, dispatch no alert and write no
\* snapshot; the step after them takes the tick to the next entry of its
\* list, or ends the tick after the last one.
C15_EmptyFetchFrame ==
    [][\A t \in Ticks :
          /\ (tick'[t] # tick[t] /\ tick'[t].pc \in {"loop", "next"} /\ tick'[t].txs = <<>>)
             => /\ heap' = heap
                /\ alerts' = alerts
                /\ addressesFile' = addressesFile
                /\ tick'[t].saves = 0
                /\ tick'[t].sent = <<>>
                /\ tick'[t].entries = tick[t].entries
          /\ (tick'[t] # tick[t] /\ tick[t].pc = "next" /\ tick[t].txs = <<>>)
             => /\ tick'[t].entries = Tail(tick[t].entries)
                /\ tick'[t].pc = IF Len(tick[t].entries) > 1 THEN "fetch" ELSE "done"
                /\ heap' = heap /\ alerts' = alerts /\ addressesFile' = addressesFile]_vars

\* the visit of the first of two addresses, at lastBlock 2, got no records
\* and is over: nothing sent, nothing saved, lastBlock still 2, and the
\* second address is still to come
C15_Witness ==
    \E t \in Ticks :
        /\ Visited(t)
        /\ tick[t].txs = <<>>
        /\ Len(tick[t].entries) = 2
        /\ tick[t].startBlock = 2
        /\ VisitData(t).lastBlock = 2
        /\ tick[t].saves = 0
        /\ \A h \in Hashes : alerts[VisitAddress(t)][h] = 0

\* C16: a record of the feed history of a monitored address whose block is
\* above the address's lastBlock and which the filter lets through is
\* eventually dispatched as an alert for that address, given that ticks keep
\* firing and fetches succeed again and again.
C16_EventuallyDispatched ==
    \A k \in 1..MaxLenLive :
        (/\ initProc.pc = "armed"
         /\ "a1" \in Keys(monitoredAddresses)
         /\ k <= Len(HistOf("a1"))
         /\ HistOf("a1")[k].blockNumber > heap[RefOf(monitoredAddresses, "a1")].lastBlock
         /\ ~Suppressed(HistOf("a1")[k], "a1", blacklistedContracts))
        ~> (k <= Len(HistOf("a1")) /\ alerts["a1"][HistOf("a1")[k].hash] > 0)

\* C17: the alerts a tick has dispatched in its visit of an address are in
\* strictly increasing order of block number.
C17_AlertOrder ==
    \A t \in Ticks : \A j, k \in 1..Len(tick[t].sent) :
        j < k => BlockOfHash(tick[t].sent[j]) < BlockOfHash(tick[t].sent[k])

\* a visit with a response of three records is over: two alerts went out,
\* and the last record, of the same block as the second alert, was skipped
C17_Witness ==
    \E t \in Ticks :
        /\ Visited(t)
        /\ Len(tick[t].txs) = 3
        /\ Len(tick[t].sent) = 2
        /\ tick[t].sent = <<tick[t].txs[1].hash, tick[t].txs[2].hash>>
        /\ tick[t].txs[3].blockNumber = tick[t].txs[2].blockNumber

\* C18: no step taken while a tick is suspended in the send of an alert,
\* between its test of the record's block and its assignment of lastBlock,
\* lowers the lastBlock of a monitored address.
C18_MonotonicOverlap ==
    [][(\E t \in Ticks : tick[t].pc = "send")
       => \A k \in 1..Len(monitoredAddresses) :
             heap'[monitoredAddresses[k].ref].lastBlock
                >= heap[monitoredAddresses[k].ref].lastBlock]_vars

\* C19: an /add whose history fetch returns when its address is already a
\* key of the watch-list (another /add of the address inserted it during the
\* fetch) replies that the address is already monitored, and leaves the
\* watch-list, the entry's data and addresses.json as they are.
C19_AddsSerialized ==
    [][\A k \in Cmds :
          (/\ cmd[k].pc = "fetch"
           /\ cmd'[k].pc = "idle"
           /\ cmd[k].address \in Keys(monitoredAddresses))
          => /\ reply' = [command |-> "add", to |-> cmd[k].address, text |-> "already"]
             /\ UNCHANGED <<monitoredAddresses, heap, addressesFile>>]_vars

\* C20: no alert is dispatched for an address that is not a key of the
\* watch-list: from the /remove that deleted it until an /add inserts it
\* again, the alerts of the address stay as they are.
C20_RemoveImmediate ==
    [][\A a \in Addresses :
          (a \notin Keys(monitoredAddresses) /\ a \notin Keys(monitoredAddresses'))
          => alerts'[a] = alerts[a]]_vars

====
